---- MODULE Spec2Model ----
(***************************************************************************)
(* Model of the prompt-construction environments of rl-prompt-engine:      *)
(*   AppointmentPromptEnv  (core/appointment_prompt_env.py)                *)
(*   PromptEnv             (core/prompt_env.py)                            *)
(* Rewards are Python floats in the source.  The model keeps them exact as *)
(* integers counted in units of 1/Scale, so 0.1 is Scale \div 10.          *)
(***************************************************************************)
EXTENDS Integers, Sequences, FiniteSets, TLC

\* ------------------------------------------------------------------------
\* Program constants (appointment_prompt_env.py:19-23)
\* ------------------------------------------------------------------------
N_PROMPT_COMPONENTS == 10
MAX_PROMPT_LENGTH == 6
N_CUSTOMER_TYPES == 6
N_CONVERSATION_STAGES == 4
N_URGENCY_LEVELS == 3

\* ------------------------------------------------------------------------
\* Bounds of the model
\* ------------------------------------------------------------------------
\* number of components an agent picks from, counted from appointment_booking
MaxActComp == 2
\* step calls reporting done that are explored after one reset
MaxDone == 2
\* magnitude (in 1/100) of the noise added to each psychology weight
NoiseAmp == 32
\* longest strategy handed to PromptEngine.evaluate_strategy
MaxStrategyLen == 2
\* PromptEnv configurations: catalog size, max_prompt_length, max_turns
MaxCatalog == 3
MaxCfgLength == 2
MaxCfgTurns == 3
\* draws of one seed's sequence that the generator is followed for
MaxDraws == 3
\* largest max_conversation_turns and n_personas a salesgym environment is
\* constructed with
MaxSalesTurns == 4
MaxPersonas == 3
\* positions of the prompt a driver spreads its selections over
MaxPositions == 3

\* ------------------------------------------------------------------------
\* Fixed-point arithmetic
\* ------------------------------------------------------------------------
Scale == 42 * 1000000
Tenth == Scale \div 10
Min(a, b) == IF a < b THEN a ELSE b
Max(a, b) == IF a > b THEN a ELSE b
\* np.clip(x, lo, hi)
Clip(x, lo, hi) == Max(lo, Min(x, hi))

RECURSIVE SumSeq(_)
SumSeq(s) == IF s = <<>> THEN 0 ELSE Head(s) + SumSeq(Tail(s))

Range(s) == {s[i] : i \in 1..Len(s)}
NoDuplicates(s) == \A i, j \in 1..Len(s) : i # j => s[i] # s[j]

\* ------------------------------------------------------------------------
\* Default catalog of AppointmentPromptEnv (_get_default_config).
\* Components, customer types and stages are indexed in dict order from 0;
\* effectiveness values are in tenths, psychology weights in hundredths.
\* ------------------------------------------------------------------------
Components == 0..(N_PROMPT_COMPONENTS - 1)

\* config["prompt_components"][c]["effectiveness"][customer type]
Effectiveness ==
  << <<9, 6, 7, 8, 5, 8>>,
     <<8, 7, 6, 9, 4, 7>>,
     <<7, 9, 8, 8, 6, 7>>,
     <<8, 9, 5, 8, 4, 9>>,
     <<4, 8, 7, 3, 9, 5>>,
     <<8, 6, 5, 9, 4, 8>>,
     <<6, 9, 7, 5, 8, 6>>,
     <<5, 7, 9, 4, 8, 6>>,
     <<7, 6, 5, 8, 4, 7>>,
     <<8, 7, 6, 9, 5, 8>> >>

\* config["prompt_components"][c]["stage_effectiveness"][stage]
StageEffectiveness ==
  << <<9, 7, 4, 2>>,
     <<8, 9, 6, 3>>,
     <<5, 8, 9, 7>>,
     <<4, 7, 8, 9>>,
     <<3, 6, 8, 9>>,
     <<6, 8, 7, 5>>,
     <<4, 6, 8, 9>>,
     <<2, 4, 8, 9>>,
     <<3, 5, 7, 8>>,
     <<7, 8, 6, 4>> >>

\* config["prompt_components"][c]["compatibility"], as component indices
Compatibility ==
  << {1, 2}, {0, 2}, {1, 3}, {2, 4}, {3, 5},
     {4, 6}, {5, 7}, {6, 8}, {7}, {0, 1} >>

\* config["customer_types"][t]["preferences"]
Preferences ==
  << {0, 1, 5, 9}, {2, 3, 6}, {2, 7, 6}, {1, 5, 9, 8}, {4, 6, 7}, {0, 3, 5, 9} >>

\* config["customer_types"][t]["psychology_weights"]:
\* interest, urgency, availability, trust, commitment
PsychologyWeights ==
  << <<30, 20, 40, 25, 20>>,
     <<45, 35, 60, 35, 35>>,
     <<60, 50, 80, 45, 50>>,
     <<30, 20, 40, 25, 20>>,
     <<45, 35, 60, 35, 35>>,
     <<60, 50, 80, 45, 50>> >>

\* config["conversation_stages"][s]["preferred_components"]
StagePreferred ==
  << {0, 1, 9}, {1, 2, 5}, {3, 4, 6}, {7, 4, 6} >>

\* component indices of the names the scoring code tests for
VALUE_PROPOSITION == 2
URGENCY_CREATION == 4
SOCIAL_PROOF == 5
APPOINTMENT_BOOKING == 7
FOLLOW_UP == 8
\* index of "high" in ["low", "medium", "high"]
HIGH_URGENCY == 2

\* catalog["compatibility"] as a function from component to set of components
DefaultCompat == [c \in Components |-> Compatibility[c + 1]]

\* ------------------------------------------------------------------------
\* ActionCodec of AppointmentPromptEnv.step (lines 318-321)
\* ------------------------------------------------------------------------
ActionSpaceSize == N_PROMPT_COMPONENTS * MAX_PROMPT_LENGTH * 2

DecodeFinish(action) == action % 2
DecodePosition(action) == (action \div 2) % MAX_PROMPT_LENGTH
\* the decoding the comment at line 73 describes (component * 100 + ...)
DecodeComponentMutant(action) == (action \div 100) % N_PROMPT_COMPONENTS
DecodeComponent(action) == (action \div (2 * MAX_PROMPT_LENGTH)) % N_PROMPT_COMPONENTS
Decode(action) ==
  [component |-> DecodeComponent(action),
   position |-> DecodePosition(action),
   finish |-> DecodeFinish(action)]

\* the inverse composition: a = c*2P + p*2 + f
Encode(c, p, f) == c * (2 * MAX_PROMPT_LENGTH) + p * 2 + f

\* ------------------------------------------------------------------------
\* ScoringModel of AppointmentPromptEnv
\* ------------------------------------------------------------------------
\* _calculate_component_reward (lines 375-403)
CalculateComponentReward(c, ct, st, ul) ==
  LET combined20 == Effectiveness[c + 1][ct + 1] + StageEffectiveness[c + 1][st + 1]
      pref == IF c \in Preferences[ct + 1] THEN 12 ELSE 10
      stage == IF c \in StagePreferred[st + 1] THEN 11 ELSE 10
      urg == IF ul = HIGH_URGENCY /\ c \in {URGENCY_CREATION, APPOINTMENT_BOOKING}
             THEN 115 ELSE 100
  IN  combined20 * pref * stage * urg * (Scale \div (20 * 10 * 10 * 100 * 10))

\* the bonus with the length test off by one
CalculateCompatibilityRewardMutant(sel, compat) ==
  IF Len(sel) <= 2 THEN 0
  ELSE LET pairs == {ij \in (1..Len(sel)) \X (1..Len(sel)) : ij[1] # ij[2]}
           good == {ij \in pairs : sel[ij[2]] \in compat[sel[ij[1]]]}
           score10 == 10 * Cardinality(good) - 3 * Cardinality(pairs \ good)
       IN  (score10 * (Scale \div 200)) \div Cardinality(pairs)

\* _calculate_compatibility_reward (lines 405-429)
CalculateCompatibilityReward(sel, compat) ==
  IF Len(sel) < 2 THEN 0
  ELSE LET pairs == {ij \in (1..Len(sel)) \X (1..Len(sel)) : ij[1] # ij[2]}
           good == {ij \in pairs : sel[ij[2]] \in compat[sel[ij[1]]]}
           score10 == 10 * Cardinality(good) - 3 * Cardinality(pairs \ good)
           total_pairs == Cardinality(pairs)
       IN  IF total_pairs > 0
           THEN (score10 * (Scale \div 200)) \div total_pairs
           ELSE 0

\* the rules of _calculate_psychology_alignment_bonus that fire for one component
PsychologyRules(c, psych) ==
    (IF psych[1] > 60 /\ c \in {VALUE_PROPOSITION, SOCIAL_PROOF} THEN 1 ELSE 0)
  + (IF psych[2] > 60 /\ c \in {URGENCY_CREATION, APPOINTMENT_BOOKING} THEN 1 ELSE 0)
  + (IF psych[3] > 60 /\ c = APPOINTMENT_BOOKING THEN 1 ELSE 0)
  + (IF psych[4] > 60 /\ c \in {APPOINTMENT_BOOKING, VALUE_PROPOSITION} THEN 1 ELSE 0)
  + (IF psych[5] > 60 /\ c \in {APPOINTMENT_BOOKING, FOLLOW_UP} THEN 1 ELSE 0)

\* _calculate_psychology_alignment_bonus (lines 480-514)
CalculatePsychologyAlignmentBonus(sel, psych) ==
  IF sel = <<>> THEN 0
  ELSE LET bonus == SumSeq([i \in 1..Len(sel) |-> PsychologyRules(sel[i], psych)])
                    * (Scale \div 20)
       IN  Min(bonus, 2 * Tenth)

\* the sum with the compatibility bonus entered as the step bonus, not
\* multiplied by 10
FinalScoreUnscaledCompat(sel, ct, st, psych, compat) ==
  LET total20 == SumSeq([i \in 1..Len(sel) |->
                   Effectiveness[sel[i] + 1][ct + 1] + StageEffectiveness[sel[i] + 1][st + 1]])
      avg_effectiveness == (total20 * (Scale \div 20)) \div Len(sel)
      preference_bonus ==
        Tenth * Cardinality({i \in 1..Len(sel) : sel[i] \in Preferences[ct + 1]})
      stage_bonus ==
        Tenth * Cardinality({i \in 1..Len(sel) : sel[i] \in StagePreferred[st + 1]})
      compatibility_bonus == CalculateCompatibilityReward(sel, compat)
      efficiency_bonus == Max(0, (MAX_PROMPT_LENGTH - Len(sel)) * (Scale \div 20))
      psychology_bonus == CalculatePsychologyAlignmentBonus(sel, psych)
  IN  avg_effectiveness + preference_bonus + stage_bonus + compatibility_bonus
        + efficiency_bonus + psychology_bonus

\* the sum formed at line 476, before the clip
FinalScore(sel, ct, st, psych, compat) ==
  LET total20 == SumSeq([i \in 1..Len(sel) |->
                   Effectiveness[sel[i] + 1][ct + 1] + StageEffectiveness[sel[i] + 1][st + 1]])
      avg_effectiveness == (total20 * (Scale \div 20)) \div Len(sel)
      preference_bonus ==
        Tenth * Cardinality({i \in 1..Len(sel) : sel[i] \in Preferences[ct + 1]})
      stage_bonus ==
        Tenth * Cardinality({i \in 1..Len(sel) : sel[i] \in StagePreferred[st + 1]})
      compatibility_bonus == CalculateCompatibilityReward(sel, compat) * 10
      efficiency_bonus == Max(0, (MAX_PROMPT_LENGTH - Len(sel)) * (Scale \div 20))
      psychology_bonus == CalculatePsychologyAlignmentBonus(sel, psych)
  IN  avg_effectiveness + preference_bonus + stage_bonus + compatibility_bonus
        + efficiency_bonus + psychology_bonus

\* the effectiveness without the final clip
CalculatePromptEffectivenessUnclipped(sel, ct, st, psych, compat) ==
  IF sel = <<>> THEN 0
  ELSE FinalScore(sel, ct, st, psych, compat)

\* the effectiveness without the early return for an empty selection,
\* which then earns the efficiency bonus
CalculatePromptEffectivenessNoEmptyCase(sel, ct, st, psych, compat) ==
  IF sel = <<>> THEN Clip(MAX_PROMPT_LENGTH * (Scale \div 20), 0, Scale)
  ELSE Clip(FinalScore(sel, ct, st, psych, compat), 0, Scale)

\* _calculate_prompt_effectiveness (lines 431-478)
CalculatePromptEffectiveness(sel, ct, st, psych, compat) ==
  IF sel = <<>> THEN 0
  ELSE Clip(FinalScore(sel, ct, st, psych, compat), 0, Scale)

\* ------------------------------------------------------------------------
\* Catalog given to PromptEnv (config file read by PromptEnv._load_config).
\* A sample catalog: component c has a scalar "effectiveness" (tenths);
\* two context types, two stages and the urgency levels low, medium, high.
\* The first config.n components are declared.
\* ------------------------------------------------------------------------
PE_Effectiveness == <<8, 5, 9, 6, 7, 4, 10>>
PE_ContextPreferred == << {0, 2}, {1} >>
PE_StagePreferred == << {0}, {1, 2} >>
PE_UrgencyPreferred == << {}, {}, {1, 2} >>
PE_N_CONTEXT_TYPES == Len(PE_ContextPreferred)
PE_N_STAGES == Len(PE_StagePreferred)
PE_N_URGENCY == Len(PE_UrgencyPreferred)

\* the configurations explored: catalog size n, max_prompt_length, max_turns
PromptConfigs ==
  [n : 1..MaxCatalog, max_prompt_length : 1..MaxCfgLength, max_turns : 1..MaxCfgTurns]

\* ------------------------------------------------------------------------
\* State
\* ------------------------------------------------------------------------
VARIABLES
  env,                     \* which object the program constructed
  \* AppointmentPromptEnv fields
  customer_type, conversation_stage, urgency_level, customer_psychology,
  prompt_so_far, turn, selected_components,
  \* PromptEnv fields
  config, pe_selected_components, pe_turn,
  current_context_type, current_conversation_stage, current_urgency_level,
  \* what the last call returned (reset returns no reward: 0, FALSE, FALSE)
  reward, terminated, truncated,
  \* whether the last call raised an exception instead of returning
  raised,
  \* step calls since the last reset that returned, and how many of them
  \* reported done (terminated or truncated); an exception is not caught by
  \* the callers in the repository and ends the program
  calls, done_count,
  \* input and output of the pure functions applied by the function specifications
  fin, fout,
  \* the process-wide numpy generator (module np.random): the seed it was last
  \* given and the number of resets that drew from it since, and the samples
  \* it yields for each seed and draw
  np_random, np_stream,
  \* a second AppointmentPromptEnv instance of the same process, and the
  \* generator state its own calls alone would have produced
  other_env, other_alone,
  \* AutomotiveAppointmentEnv (salesgym) fields: n_personas and max_turns as
  \* constructed, turn, persona_id, features (hundredths), last_action; the
  \* local appointment_booked_now of the last step, and the info dictionary
  \* the last call returned: whether a call has returned one, and its
  \* "appointment_booked" entry (FALSE when the dictionary has none)
  sg_n_personas, sg_max_turns, sg_turn, sg_persona_id, sg_features, sg_last_action,
  sg_booked_now, sg_info,
  \* PromptEngine.generate_strategy: where the call stands, its local list
  \* selected_components and its local counter step
  gs_pc, gs_selected_components, gs_step

apptVars == <<customer_type, conversation_stage, urgency_level, customer_psychology,
              prompt_so_far, turn, selected_components>>
peVars == <<config, pe_selected_components, pe_turn,
            current_context_type, current_conversation_stage, current_urgency_level>>
retVars == <<reward, terminated, truncated, raised>>
histVars == <<calls, done_count>>
fnVars == <<fin, fout>>
sharedVars == <<np_random, np_stream, other_env, other_alone>>
salesVars == <<sg_n_personas, sg_max_turns, sg_turn, sg_persona_id, sg_features,
               sg_last_action, sg_booked_now, sg_info>>
gsVars == <<gs_pc, gs_selected_components, gs_step>>
auxVars == <<sharedVars, salesVars, gsVars>>
vars == <<env, apptVars, peVars, retVars, histVars, fnVars, auxVars>>

\* ------------------------------------------------------------------------
\* AppointmentPromptEnv
\* ------------------------------------------------------------------------
\* noise vectors drawn by np.random.normal(0, 0.1): of the five draws the
\* model explores the vectors that are all -NoiseAmp or all +NoiseAmp
NoiseVectors == {[d \in 1..5 |-> s * NoiseAmp] : s \in {-1, 1}}

\* reset, lines 294-306: weights plus noise, clipped to [0, 1]
InitialPsychology(ct, noise) ==
  [d \in 1..5 |-> Clip(PsychologyWeights[ct + 1][d] + noise[d], 0, 100)]

\* urgency levels explored by reset: low and high; medium is scored exactly
\* as low, the scoring code tests only for "high" (line 400)
UrgencyDraws == {0, HIGH_URGENCY}

\* the positions the agent is let to choose among: the first and the last
ActPositions == {0, MAX_PROMPT_LENGTH - 1}

\* the actions the agent is let to choose among
ApptActions ==
  {Encode(c, p, f) :
     c \in {(APPOINTMENT_BOOKING + k) % N_PROMPT_COMPONENTS : k \in 0..(MaxActComp - 1)},
     p \in ActPositions, f \in {0, 1}}

\* a reset that keeps the position indicators of the previous episode
ApptResetStateMutant(ct, st, ul, noise) ==
  /\ customer_type' = ct
  /\ conversation_stage' = st
  /\ urgency_level' = ul
  /\ customer_psychology' = InitialPsychology(ct, noise)
  /\ prompt_so_far' = prompt_so_far
  /\ turn' = 0
  /\ selected_components' = <<>>

\* AppointmentPromptEnv.reset (lines 284-313); the options argument is not read
ApptResetState(ct, st, ul, noise) ==
  /\ customer_type' = ct
  /\ conversation_stage' = st
  /\ urgency_level' = ul
  /\ customer_psychology' = InitialPsychology(ct, noise)
  /\ prompt_so_far' = [i \in 1..MAX_PROMPT_LENGTH |-> 0]
  /\ turn' = 0
  /\ selected_components' = <<>>

\* the budget test with > for >=
ApptBudgetExhaustedMutant(t) == t > MAX_PROMPT_LENGTH

\* the turn-budget test of step (lines 328 and 358)
ApptBudgetExhausted(t) == t >= MAX_PROMPT_LENGTH

\* a validity test that rejects a position already marked
ApptValidMutant(component_idx, position, sel) ==
  component_idx \notin Range(sel) /\ prompt_so_far[position + 1] = 0

\* the validity test of step (line 341)
ApptValid(component_idx, position, sel) ==
  component_idx \notin Range(sel) /\ position < MAX_PROMPT_LENGTH

\* the select branch without the penalty of an invalid action
ApptSelectRewardMutant(valid, component_idx, sel1, ct, st, ul) ==
  IF valid
  THEN CalculateComponentReward(component_idx, ct, st, ul)
       + (IF Len(sel1) > 1 THEN CalculateCompatibilityReward(sel1, DefaultCompat) ELSE 0)
  ELSE 0

\* reward of the select branch (lines 341-353), sel1 the selection after the append
ApptSelectReward(valid, component_idx, sel1, ct, st, ul) ==
  IF valid
  THEN CalculateComponentReward(component_idx, ct, st, ul)
       + (IF Len(sel1) > 1 THEN CalculateCompatibilityReward(sel1, DefaultCompat) ELSE 0)
  ELSE -Tenth

\* a finish branch that advances the turn counter
ApptFinishTurnMutant(t) == t + 1

\* turn after the finish branch of step (lines 328-338): not advanced
ApptFinishTurn(t) == t

ApptEffectiveness(sel) ==
  CalculatePromptEffectiveness(sel, customer_type, conversation_stage,
                               customer_psychology, DefaultCompat)

\* lst[i] on a Python list or numpy array of n items raises IndexError
\* outside -n .. n-1
IndexRaises(i, n) == i >= n \/ i < -n

\* the context lookups of the scoring code (lines 336-337, 378-379, 438-439)
ApptContextRaises ==
  \/ IndexRaises(customer_type, N_CUSTOMER_TYPES)
  \/ IndexRaises(conversation_stage, N_CONVERSATION_STAGES)

\* a prompt_so_far array allocated one position short
ApptSelectRaisesMutant(component_idx, position) ==
  \/ IndexRaises(position, MAX_PROMPT_LENGTH - 1)
  \/ IndexRaises(component_idx, N_PROMPT_COMPONENTS)
  \/ ApptContextRaises
  \/ IndexRaises(urgency_level, N_URGENCY_LEVELS)

\* the lookups of a valid selection: prompt_so_far[position] (line 343) and
\* those of _calculate_component_reward (lines 377-400)
ApptSelectRaises(component_idx, position) ==
  \/ IndexRaises(position, MAX_PROMPT_LENGTH)
  \/ IndexRaises(component_idx, N_PROMPT_COMPONENTS)
  \/ ApptContextRaises
  \/ IndexRaises(urgency_level, N_URGENCY_LEVELS)

\* whether step(action) called in the current state raises
ApptStepRaises(action) ==
  IF DecodeFinish(action) = 1 \/ ApptBudgetExhausted(turn)
  THEN ApptContextRaises
  ELSE IF ApptValid(DecodeComponent(action), DecodePosition(action), selected_components)
       THEN ApptSelectRaises(DecodeComponent(action), DecodePosition(action))
       ELSE /\ ApptBudgetExhausted(turn + 1)
            /\ selected_components # <<>>
            /\ ApptContextRaises

\* the turn counter after step(action) called in the current state; a
\* selection that raises has not reached line 355
ApptStepTurn(action) ==
  IF DecodeFinish(action) = 1 \/ ApptBudgetExhausted(turn)
  THEN ApptFinishTurn(turn)
  ELSE IF /\ ApptValid(DecodeComponent(action), DecodePosition(action),
                       selected_components)
          /\ ApptSelectRaises(DecodeComponent(action), DecodePosition(action))
       THEN turn
       ELSE turn + 1

\* a step that puts the new component in front of the selection
ApptStepSelectedMutant(action) ==
  IF /\ DecodeFinish(action) = 0 /\ ~ApptBudgetExhausted(turn)
     /\ ApptValid(DecodeComponent(action), DecodePosition(action), selected_components)
  THEN <<DecodeComponent(action)>> \o selected_components
  ELSE selected_components

\* the selection after step(action) called in the current state
ApptStepSelected(action) ==
  IF /\ DecodeFinish(action) = 0 /\ ~ApptBudgetExhausted(turn)
     /\ ApptValid(DecodeComponent(action), DecodePosition(action), selected_components)
  THEN Append(selected_components, DecodeComponent(action))
  ELSE selected_components

\* the reward step(action) returns when called in the current state
ApptStepReward(action) ==
  IF DecodeFinish(action) = 1 \/ ApptBudgetExhausted(turn)
  THEN ApptEffectiveness(selected_components)
  ELSE IF ApptBudgetExhausted(turn + 1)
       THEN ApptEffectiveness(ApptStepSelected(action))
       ELSE ApptSelectReward(
              ApptValid(DecodeComponent(action), DecodePosition(action),
                        selected_components),
              DecodeComponent(action), ApptStepSelected(action),
              customer_type, conversation_stage, urgency_level)

\* a step on which the customer's interest decays
ApptStepPsychologyMutant(psych) == [psych EXCEPT ![1] = Max(0, psych[1] - 1)]

\* the psychology vector after a step: step and the scoring code read it
\* (line 485) and assign no element of it
ApptStepPsychology(psych) == psych

\* the position indicators after step(action) called in the current state
\* (line 343)
ApptStepPromptSoFar(action) ==
  IF /\ DecodeFinish(action) = 0 /\ ~ApptBudgetExhausted(turn)
     /\ ApptValid(DecodeComponent(action), DecodePosition(action), selected_components)
     /\ ~IndexRaises(DecodePosition(action), MAX_PROMPT_LENGTH)
  THEN [prompt_so_far EXCEPT ![DecodePosition(action) + 1] = 1]
  ELSE prompt_so_far

\* the flags step(action) returns when called in the current state
\* (lines 328-330 and 358-359)
ApptStepTerminated(action) == DecodeFinish(action) = 1 \/ ApptBudgetExhausted(turn)
ApptStepTruncated(action) ==
  ~ApptStepTerminated(action) /\ ApptBudgetExhausted(turn + 1)

\* AppointmentPromptEnv.step (lines 315-362)
ApptStep(action) ==
  LET finish == DecodeFinish(action)
      position == DecodePosition(action)
      component_idx == DecodeComponent(action)
      ends == finish = 1 \/ ApptBudgetExhausted(turn)
      valid == ApptValid(component_idx, position, selected_components)
  IN  /\ env = "AppointmentPromptEnv"
      /\ ~raised
      /\ done_count < MaxDone
      /\ selected_components' = ApptStepSelected(action)
      /\ prompt_so_far' = ApptStepPromptSoFar(action)
      /\ turn' = ApptStepTurn(action)
      /\ raised' = ApptStepRaises(action)
      /\ IF ApptStepRaises(action)
         THEN UNCHANGED <<reward, terminated, truncated>>
         ELSE /\ terminated' = ApptStepTerminated(action)
              /\ truncated' = ApptStepTruncated(action)
              /\ reward' = ApptStepReward(action)
      /\ calls' = IF raised' THEN calls ELSE calls + 1
      /\ done_count' = IF ~raised' /\ (terminated' \/ truncated')
                        THEN done_count + 1 ELSE done_count
      /\ customer_psychology' = ApptStepPsychology(customer_psychology)
      /\ UNCHANGED <<env, auxVars, customer_type, conversation_stage, urgency_level,
                     peVars, fnVars>>

\* contexts a caller passes to reset in options
ApptSuppliedContexts ==
  {[customer_type |-> ct, conversation_stage |-> N_CONVERSATION_STAGES - 1,
    urgency_level |-> HIGH_URGENCY] : ct \in {0, N_CUSTOMER_TYPES - 1}}

\* AppointmentPromptEnv.reset(seed, options) (lines 284-313): the context is
\* drawn from np.random, the psychology from the drawn type; neither seed
\* (other than to seed the generator) nor options is read
ApptResetWith(options) ==
  /\ env = "AppointmentPromptEnv"
  /\ ~raised
  /\ \E ct \in 0..(N_CUSTOMER_TYPES - 1), st \in 0..(N_CONVERSATION_STAGES - 1),
        ul \in UrgencyDraws, noise \in NoiseVectors :
       ApptResetState(ct, st, ul, noise)
  /\ reward' = 0 /\ terminated' = FALSE /\ truncated' = FALSE /\ raised' = FALSE
  /\ calls' = 0 /\ done_count' = 0
  /\ UNCHANGED <<env, auxVars, peVars, fnVars>>

\* a call of AppointmentPromptEnv.reset()
ApptReset == ApptResetWith(<<>>)

\* fields of the object that was not constructed
NoPromptEnv ==
  /\ config = [n |-> 0, max_prompt_length |-> 0, max_turns |-> 0]
  /\ pe_selected_components = <<>> /\ pe_turn = 0
  /\ current_context_type = 0 /\ current_conversation_stage = 0
  /\ current_urgency_level = 0
NoApptEnv ==
  /\ customer_type = 0 /\ conversation_stage = 0 /\ urgency_level = 0
  /\ customer_psychology = [d \in 1..5 |-> 0]
  /\ prompt_so_far = [i \in 1..MAX_PROMPT_LENGTH |-> 0]
  /\ turn = 0 /\ selected_components = <<>>
NoCall ==
  /\ reward = 0 /\ terminated = FALSE /\ truncated = FALSE /\ raised = FALSE
  /\ calls = 0 /\ done_count = 0
NoFn == fin = <<>> /\ fout = <<>>
\* no second instance and no use made of the process-wide generator
NoShared ==
  /\ np_random = <<>> /\ np_stream = <<>>
  /\ other_env = <<>> /\ other_alone = <<>>
\* no salesgym environment
NoSales ==
  /\ sg_n_personas = 0 /\ sg_max_turns = 0 /\ sg_turn = 0 /\ sg_persona_id = 0
  /\ sg_features = <<>> /\ sg_last_action = 0
  /\ sg_booked_now = FALSE /\ sg_info = <<>>
\* no call of generate_strategy under way
NoStrategy == gs_pc = "idle" /\ gs_selected_components = <<>> /\ gs_step = 0
NoAux == NoShared /\ NoSales /\ NoStrategy

\* AppointmentPromptEnv.__init__ (lines 56-85), which ends with self.reset()
InitAppt ==
  /\ env = "AppointmentPromptEnv"
  /\ \E ct \in 0..(N_CUSTOMER_TYPES - 1), st \in 0..(N_CONVERSATION_STAGES - 1),
        ul \in UrgencyDraws, noise \in NoiseVectors :
       /\ customer_type = ct
       /\ conversation_stage = st
       /\ urgency_level = ul
       /\ customer_psychology = InitialPsychology(ct, noise)
  /\ prompt_so_far = [i \in 1..MAX_PROMPT_LENGTH |-> 0]
  /\ turn = 0
  /\ selected_components = <<>>
  /\ NoPromptEnv /\ NoCall /\ NoFn /\ NoAux

\* ------------------------------------------------------------------------
\* PromptEnv
\* ------------------------------------------------------------------------
\* _calculate_component_reward (prompt_env.py lines 154-180)
PECalculateComponentReward(c, ct, st, ul) ==
  LET pref == IF c \in PE_ContextPreferred[ct + 1] THEN 12 ELSE 10
      stage == IF c \in PE_StagePreferred[st + 1] THEN 11 ELSE 10
      urg == IF ul = HIGH_URGENCY /\ c \in PE_UrgencyPreferred[ul + 1] THEN 115 ELSE 100
  IN  PE_Effectiveness[c + 1] * pref * stage * urg * (Scale \div (10 * 10 * 10 * 100 * 10))

\* _calculate_context_matching_bonus (lines 207-224)
PECalculateContextMatchingBonus(sel, ct, st) ==
  IF sel = <<>> THEN 0
  ELSE LET preferred_components == PE_ContextPreferred[ct + 1] \cup PE_StagePreferred[st + 1]
           matching_components == Range(sel) \cap preferred_components
       IN  Cardinality(matching_components) * Tenth

\* _calculate_final_reward (lines 182-205)
PECalculateFinalReward(sel, ct, st, cfg) ==
  IF sel = <<>> THEN 0
  ELSE LET total10 == SumSeq([i \in 1..Len(sel) |-> PE_Effectiveness[sel[i] + 1]])
           avg_effectiveness == (total10 * (Scale \div 10)) \div Len(sel)
           efficiency_bonus == Max(0, (cfg.max_prompt_length - Len(sel)) * (Scale \div 20))
           context_matching_bonus == PECalculateContextMatchingBonus(sel, ct, st)
       IN  Clip(avg_effectiveness + efficiency_bonus + context_matching_bonus, 0, Scale)

\* the truncation test of step (line 131)
PEBudgetExhausted(t, cfg) == t >= cfg.max_turns

\* a step that never finds a component selected
PEAlreadySelectedMutant(component_idx, sel) == FALSE

\* the membership test of step (line 118)
PEAlreadySelected(component_idx, sel) == component_idx \in Range(sel)

\* the turn counter after line 101
PENextTurn(t) == t + 1

\* lst[i] of Python reads item i + n for a negative i (IndexRaises excluded)
PyIndex(i, n) == IF i < 0 THEN i + n ELSE i

PEFinal(sel) ==
  PECalculateFinalReward(sel, PyIndex(current_context_type, PE_N_CONTEXT_TYPES),
                         PyIndex(current_conversation_stage, PE_N_STAGES), config)

\* the lookups of _calculate_context_matching_bonus (lines 212-213), reached
\* by _calculate_final_reward when something is selected (line 184)
PEFinalRaises(sel) ==
  /\ sel # <<>>
  /\ \/ IndexRaises(current_context_type, PE_N_CONTEXT_TYPES)
     \/ IndexRaises(current_conversation_stage, PE_N_STAGES)

\* the lookups of _calculate_component_reward (lines 163, 169, 175)
PEComponentRewardRaises ==
  \/ IndexRaises(current_context_type, PE_N_CONTEXT_TYPES)
  \/ IndexRaises(current_conversation_stage, PE_N_STAGES)
  \/ IndexRaises(current_urgency_level, PE_N_URGENCY)

\* whether step(action) called in the current state raises
PEStepRaises(action) ==
  IF action = config.n
  THEN PEFinalRaises(pe_selected_components)
  ELSE IF PEAlreadySelected(action, pe_selected_components)
       THEN /\ PEBudgetExhausted(PENextTurn(pe_turn), config)
            /\ PEFinalRaises(pe_selected_components)
       ELSE PEComponentRewardRaises

\* PromptEnv.step (lines 99-138); action config.n is the finish action; what
\* the call does to the environment and returns
PEStepEnv(action) ==
  LET turn1 == PENextTurn(pe_turn)
      isFinish == (action = config.n)
      dup == ~isFinish /\ PEAlreadySelected(action, pe_selected_components)
      sel1 == IF isFinish \/ dup THEN pe_selected_components
              ELSE Append(pe_selected_components, action)
      r1 == IF isFinish THEN PEFinal(pe_selected_components)
            ELSE IF dup THEN -Tenth
            ELSE PECalculateComponentReward(action,
                     PyIndex(current_context_type, PE_N_CONTEXT_TYPES),
                     PyIndex(current_conversation_stage, PE_N_STAGES),
                     PyIndex(current_urgency_level, PE_N_URGENCY))
  IN  /\ env = "PromptEnv"
      /\ ~raised
      /\ done_count < MaxDone
      /\ pe_turn' = turn1
      /\ pe_selected_components' = sel1
      /\ raised' = PEStepRaises(action)
      /\ IF PEStepRaises(action)
         THEN UNCHANGED <<reward, terminated, truncated>>
         ELSE /\ terminated' = (isFinish \/ PEBudgetExhausted(turn1, config))
              /\ truncated' = FALSE
              /\ reward' = IF PEBudgetExhausted(turn1, config)
                           THEN (IF sel1 = <<>> THEN 0 ELSE PEFinal(sel1))
                           ELSE r1
      /\ calls' = IF raised' THEN calls ELSE calls + 1
      /\ done_count' = IF ~raised' /\ (terminated' \/ truncated')
                        THEN done_count + 1 ELSE done_count
      /\ UNCHANGED <<env, sharedVars, salesVars, config, current_context_type,
                     current_conversation_stage, current_urgency_level, apptVars, fnVars>>

\* a call of PromptEnv.step by a driver of the environment
PEStep(action) == PEStepEnv(action) /\ UNCHANGED gsVars

\* an optional field of the options dict: <<>> when absent, <<v>> when present
Optional(S) == {<<>>} \cup {<<v>> : v \in S}

\* values a caller passes in options: in range, negative, past the end
SuppliedContextTypes == {1, PE_N_CONTEXT_TYPES}
SuppliedStages == {-1, 0}
SuppliedUrgencyLevels == {HIGH_URGENCY}

PEOptions ==
  [context_type : Optional(SuppliedContextTypes),
   conversation_stage : Optional(SuppliedStages),
   urgency_level : Optional(SuppliedUrgencyLevels)]

\* a reset that draws every field, whatever the options
PEResetFieldMutant(opt, n) == 0..(n - 1)

\* one context field of reset (lines 82-85, 87-90, 92-95): the value in
\* options if present, else np_random.integers(0, n)
PEResetField(opt, n) == IF Len(opt) = 1 THEN {opt[1]} ELSE 0..(n - 1)

\* PromptEnv.reset(options) (lines 73-97): what the call does to the
\* environment and returns
PEResetEnv(options) ==
  /\ env = "PromptEnv"
  /\ ~raised
  /\ pe_selected_components' = <<>>
  /\ pe_turn' = 0
  /\ current_context_type' \in PEResetField(options.context_type, PE_N_CONTEXT_TYPES)
  /\ current_conversation_stage' \in PEResetField(options.conversation_stage, PE_N_STAGES)
  /\ current_urgency_level' \in PEResetField(options.urgency_level, PE_N_URGENCY)
  /\ reward' = 0 /\ terminated' = FALSE /\ truncated' = FALSE /\ raised' = FALSE
  /\ calls' = 0 /\ done_count' = 0
  /\ UNCHANGED <<env, sharedVars, salesVars, config, apptVars, fnVars>>

\* a call of PromptEnv.reset(options) by a driver of the environment
PEResetWith(options) == PEResetEnv(options) /\ UNCHANGED gsVars

\* a call of PromptEnv.reset
PEReset == \E options \in PEOptions : PEResetWith(options)

\* PromptEnv.__init__ (lines 31-62); reset is not called by the constructor
InitPrompt ==
  /\ env = "PromptEnv"
  /\ config \in PromptConfigs
  /\ pe_selected_components = <<>>
  /\ pe_turn = 0
  /\ current_context_type = 0
  /\ current_conversation_stage = 0
  /\ current_urgency_level = 0
  /\ NoApptEnv /\ NoCall /\ NoFn /\ NoAux

\* ------------------------------------------------------------------------
\* The program constructs one of the two environments and drives it
\* ------------------------------------------------------------------------
Init == InitAppt \/ InitPrompt

Next ==
  \/ \E a \in ApptActions : ApptStep(a)
  \/ ApptReset
  \/ \E a \in 0..config.n : PEStep(a)
  \/ PEReset

Spec == Init /\ [][Next]_vars

\* ------------------------------------------------------------------------
\* The environments as the engine classes drive them:
\* MetaPromptingSystem.generate_strategy resets its AppointmentPromptEnv and
\* writes into the observation it got back, without calling step;
\* PromptEngine resets and steps its PromptEnv, and evaluate_strategy
\* scores a given strategy on it
\* ------------------------------------------------------------------------
\* MetaPromptingSystem.generate_strategy, meta_prompting.py line 138:
\* obs["prompt_so_far"][position] = 1.0 on the observation returned by
\* self.env.reset() (line 113).  _get_observation hands out the environment's
\* own prompt_so_far array (appointment_prompt_env.py line 371), so the write
\* lands in the environment.  The writes of lines 114-116 and 139 go to
\* arrays made for the observation and line 119 rebinds a dict entry: they
\* change nothing in the environment.
MetaObsWrite(position) ==
  /\ env = "AppointmentPromptEnv"
  /\ ~raised
  /\ calls = 0 /\ turn = 0
  /\ prompt_so_far' = [prompt_so_far EXCEPT ![position + 1] = 1]
  /\ UNCHANGED <<env, auxVars, customer_type, conversation_stage, urgency_level,
                 customer_psychology, turn, selected_components,
                 peVars, retVars, histVars, fnVars>>

\* the component indices evaluate_strategy derives from the strategy names
\* (prompt_engine.py lines 243-246); a name may occur twice
Strategies(n) == UNION {[1..k -> 0..(n - 1)] : k \in 0..MaxStrategyLen}

\* PromptEngine.evaluate_strategy (prompt_engine.py lines 229-266): reset with
\* the given context, then self.env.selected_components = component_indices
\* when the list is not empty (line 256)
EvaluateStrategy ==
  /\ env = "PromptEnv"
  /\ ~raised
  /\ current_context_type' \in 0..(PE_N_CONTEXT_TYPES - 1)
  /\ current_conversation_stage' \in 0..(PE_N_STAGES - 1)
  /\ current_urgency_level' \in 0..(PE_N_URGENCY - 1)
  /\ pe_turn' = 0
  /\ pe_selected_components' \in Strategies(config.n)
  /\ reward' = 0 /\ terminated' = FALSE /\ truncated' = FALSE /\ raised' = FALSE
  /\ calls' = 0 /\ done_count' = 0
  /\ UNCHANGED <<env, auxVars, config, apptVars, fnVars>>

NextEngine ==
  \/ ApptReset
  \/ \E position \in ActPositions : MetaObsWrite(position)
  \/ PEReset
  \/ \E a \in 0..config.n : PEStep(a)
  \/ EvaluateStrategy

SpecEngine == Init /\ [][NextEngine]_vars

\* ------------------------------------------------------------------------
\* PromptEngine.generate_strategy (prompt_engine.py lines 121-166); the loop
\* of PromptSystem.generate_template (prompt_system.py lines 139-157) is the
\* same statement for statement. The policy's action is any member of the
\* action space
\* ------------------------------------------------------------------------
\* max_steps, line 140
MAX_STEPS == 10

\* the configurations a strategy is generated under: those explored above and
\* one whose max_turns is past max_steps
StrategyConfigs ==
  PromptConfigs
    \cup {[n |-> MaxCatalog, max_prompt_length |-> 1, max_turns |-> MAX_STEPS + 2]}

\* the contexts the caller of generate_strategy passes
StrategyOptions ==
  [context_type : {<<ct>> : ct \in 0..(PE_N_CONTEXT_TYPES - 1)},
   conversation_stage : {<<st>> : st \in SuppliedStages},
   urgency_level : {<<ul>> : ul \in SuppliedUrgencyLevels}]

InitStrategy ==
  /\ env = "PromptEnv"
  /\ config \in StrategyConfigs
  /\ pe_selected_components = <<>>
  /\ pe_turn = 0
  /\ current_context_type = 0
  /\ current_conversation_stage = 0
  /\ current_urgency_level = 0
  /\ NoApptEnv /\ NoCall /\ NoFn /\ NoAux

\* lines 129-140: the reset with the three options, the empty local list
GenerateStrategyReset(options) ==
  /\ gs_pc \in {"idle", "returned"}
  /\ PEResetEnv(options)
  /\ gs_selected_components' = <<>>
  /\ gs_step' = 0
  /\ gs_pc' = "loop"

\* the local list after lines 156-157
GenerateStrategySelected(action, sel) ==
  IF action \in Range(sel) THEN sel ELSE Append(sel, action)

\* one iteration that does not break at line 154: the local append, the
\* step, the counter, the break of lines 162-163 and the loop test of line 142
GenerateStrategyStep(action) ==
  /\ gs_pc = "loop"
  /\ action # config.n
  /\ gs_selected_components' = GenerateStrategySelected(action, gs_selected_components)
  /\ PEStepEnv(action)
  /\ gs_step' = gs_step + 1
  /\ gs_pc' = IF raised' THEN "raised"
              ELSE IF terminated' \/ truncated' \/ gs_step' >= MAX_STEPS THEN "returned"
              ELSE "loop"

\* the iteration in which the policy returns the finish action: break,
\* lines 153-154, with no step made
GenerateStrategyFinish ==
  /\ env = "PromptEnv" /\ ~raised
  /\ gs_pc = "loop"
  /\ gs_pc' = "returned"
  /\ UNCHANGED <<env, apptVars, peVars, retVars, histVars, fnVars, sharedVars, salesVars,
                 gs_selected_components, gs_step>>

NextStrategy ==
  \/ \E options \in StrategyOptions : GenerateStrategyReset(options)
  \/ \E action \in 0..(config.n - 1) : GenerateStrategyStep(action)
  \/ GenerateStrategyFinish

SpecStrategy == InitStrategy /\ [][NextStrategy]_vars

\* ------------------------------------------------------------------------
\* Function specification of the ActionCodec: a triple is encoded, then
\* decoded as step decodes it
\* ------------------------------------------------------------------------
Triples ==
  [component : 0..(N_PROMPT_COMPONENTS - 1), position : 0..(MAX_PROMPT_LENGTH - 1),
   finish : {0, 1}]

InitCodec ==
  /\ env = "ActionCodec"
  /\ fin \in Triples
  /\ fout = <<>>
  /\ NoApptEnv /\ NoPromptEnv /\ NoCall /\ NoAux

CodecEncode ==
  /\ env = "ActionCodec" /\ Len(fout) = 0
  /\ fout' = <<Encode(fin.component, fin.position, fin.finish)>>
  /\ UNCHANGED <<env, auxVars, fin, apptVars, peVars, retVars, histVars>>

CodecDecode ==
  /\ env = "ActionCodec" /\ Len(fout) = 1
  /\ fout' = <<fout[1], Decode(fout[1])>>
  /\ UNCHANGED <<env, auxVars, fin, apptVars, peVars, retVars, histVars>>

SpecCodec == InitCodec /\ [][CodecEncode \/ CodecDecode]_vars

\* ------------------------------------------------------------------------
\* Function specification of the compatibility bonus: a catalog's
\* compatibility lists and two selections are drawn, the bonus of each is
\* computed
\* ------------------------------------------------------------------------
\* a catalog of three components, the A, B and C of two selections [A, B], [A, C]
RelComponents == {0, 1, 2}
RelCatalogs == [RelComponents -> SUBSET RelComponents]
RelSelections ==
  {s \in UNION {[1..k -> RelComponents] : k \in 0..Cardinality(RelComponents)} : NoDuplicates(s)}

InitCompat ==
  /\ env = "ScoringModel"
  /\ fin \in [compat : RelCatalogs, sel1 : RelSelections, sel2 : RelSelections]
  /\ fout = <<>>
  /\ NoApptEnv /\ NoPromptEnv /\ NoCall /\ NoAux

CompatApply ==
  /\ env = "ScoringModel" /\ Len(fout) = 0
  /\ fout' = <<CalculateCompatibilityReward(fin.sel1, fin.compat),
               CalculateCompatibilityReward(fin.sel2, fin.compat)>>
  /\ UNCHANGED <<env, auxVars, fin, apptVars, peVars, retVars, histVars>>

SpecCompat == InitCompat /\ [][CompatApply]_vars

\* ------------------------------------------------------------------------
\* Two AppointmentPromptEnv instances in one process. reset draws from the
\* module-level np.random generator (lines 286-303), which the process has
\* once; reset(seed) reseeds that generator (line 287)
\* ------------------------------------------------------------------------
\* seeds a caller passes to reset
ResetSeeds == {42}

\* what one reset draws: the three randint results and the noise vector
ResetSamples ==
  {[customer_type |-> 0, conversation_stage |-> 0, urgency_level |-> 0,
    noise |-> [d \in 1..5 |-> -NoiseAmp]],
   [customer_type |-> N_CUSTOMER_TYPES - 1,
    conversation_stage |-> N_CONVERSATION_STAGES - 1,
    urgency_level |-> HIGH_URGENCY, noise |-> [d \in 1..5 |-> NoiseAmp]]}

\* np.random.seed(seed), lines 286-287: only a given seed restarts the sequence
GenAfterSeed(gen, seed) == IF seed = <<>> THEN gen ELSE [seed |-> seed, pos |-> 0]

\* the draws of lines 290-303 of one reset, taken at the generator's position
GenSample(gen) == np_stream[gen.seed][gen.pos]
GenAdvance(gen) == [gen EXCEPT !.pos = @ + 1]

\* fields a reset of the second instance sets from its draws, lines 290-306
OtherEnvState(sample) ==
  [customer_type |-> sample.customer_type,
   conversation_stage |-> sample.conversation_stage,
   urgency_level |-> sample.urgency_level,
   customer_psychology |-> InitialPsychology(sample.customer_type, sample.noise)]

\* the actions the driver of the first instance chooses among
TwoEnvActions == {Encode(APPOINTMENT_BOOKING, 0, f) : f \in {0, 1}}

\* both constructors have run (lines 56-85, each ends with self.reset()): the
\* first instance took the generator's first draws, the second the next ones
InitTwoEnvs ==
  /\ env = "AppointmentPromptEnv"
  /\ np_stream \in [Optional(ResetSeeds) -> [0..(MaxDraws - 1) -> ResetSamples]]
  /\ np_random = [seed |-> <<>>, pos |-> 2]
  /\ LET a == np_stream[<<>>][0]
     IN  /\ customer_type = a.customer_type
         /\ conversation_stage = a.conversation_stage
         /\ urgency_level = a.urgency_level
         /\ customer_psychology = InitialPsychology(a.customer_type, a.noise)
  /\ prompt_so_far = [i \in 1..MAX_PROMPT_LENGTH |-> 0]
  /\ turn = 0
  /\ selected_components = <<>>
  /\ other_env = OtherEnvState(np_stream[<<>>][1])
  /\ other_alone = np_random
  /\ NoPromptEnv /\ NoCall /\ NoFn /\ NoSales /\ NoStrategy

\* reset(seed) on the first instance (lines 284-313)
TwoEnvResetA(seed) ==
  /\ env = "AppointmentPromptEnv" /\ other_env # <<>>
  /\ ~raised
  /\ LET gen == GenAfterSeed(np_random, seed)
     IN  /\ gen.pos < MaxDraws
         /\ LET sample == GenSample(gen)
            IN  ApptResetState(sample.customer_type, sample.conversation_stage,
                               sample.urgency_level, sample.noise)
         /\ np_random' = GenAdvance(gen)
  /\ reward' = 0 /\ terminated' = FALSE /\ truncated' = FALSE /\ raised' = FALSE
  /\ calls' = 0 /\ done_count' = 0
  /\ UNCHANGED <<env, peVars, fnVars, salesVars, gsVars, np_stream, other_env, other_alone>>

\* reset(seed) on the second instance (lines 284-313); other_alone follows
\* the generator of a process in which only this instance is driven
TwoEnvResetB(seed) ==
  /\ env = "AppointmentPromptEnv" /\ other_env # <<>>
  /\ ~raised
  /\ LET gen == GenAfterSeed(np_random, seed)
         alone == GenAfterSeed(other_alone, seed)
     IN  /\ gen.pos < MaxDraws /\ alone.pos < MaxDraws
         /\ other_env' = OtherEnvState(GenSample(gen))
         /\ np_random' = GenAdvance(gen)
         /\ other_alone' = GenAdvance(alone)
  /\ UNCHANGED <<env, apptVars, peVars, retVars, histVars, fnVars, salesVars, gsVars, np_stream>>

NextTwoEnvs ==
  \/ \E seed \in Optional(ResetSeeds) : TwoEnvResetA(seed)
  \/ \E seed \in Optional(ResetSeeds) : TwoEnvResetB(seed)
  \/ \E a \in TwoEnvActions : ApptStep(a)

SpecTwoEnvs == InitTwoEnvs /\ [][NextTwoEnvs]_vars

\* ------------------------------------------------------------------------
\* One instance of AppointmentPromptEnv stepped by a driver that spreads its
\* selections over the positions of the prompt
\* ------------------------------------------------------------------------
\* the components such a driver chooses among
PositionComponents ==
  {(APPOINTMENT_BOOKING + k) % N_PROMPT_COMPONENTS : k \in 0..2}

\* its actions: a selection at each of the first MaxPositions positions, and
\* the finish action
PositionActions ==
  {Encode(c, p, 0) : c \in PositionComponents, p \in 0..(MaxPositions - 1)}
    \cup {Encode(APPOINTMENT_BOOKING, 0, 1)}

\* AppointmentPromptEnv.__init__ (lines 56-85), which ends with self.reset();
\* the draws of that reset are taken from ResetSamples
InitPosition ==
  /\ env = "AppointmentPromptEnv"
  /\ \E sample \in ResetSamples :
       /\ customer_type = sample.customer_type
       /\ conversation_stage = sample.conversation_stage
       /\ urgency_level = sample.urgency_level
       /\ customer_psychology = InitialPsychology(sample.customer_type, sample.noise)
  /\ prompt_so_far = [i \in 1..MAX_PROMPT_LENGTH |-> 0]
  /\ turn = 0
  /\ selected_components = <<>>
  /\ NoPromptEnv /\ NoCall /\ NoFn /\ NoAux

NextPosition == \E a \in PositionActions : ApptStep(a)

SpecPosition == InitPosition /\ [][NextPosition]_vars

\* ------------------------------------------------------------------------
\* Loading a catalog: an environment is constructed from a catalog that may
\* lack effectiveness values, then stepped once. fin is the catalog, fout
\* the constructed object's context followed by the rewards of its steps
\* ------------------------------------------------------------------------
\* a catalog of two components, two declared customer types and two declared
\* stages, with no preference lists; Absent stands for a key that the
\* component's entry does not have (written in every place of its table),
\* Missing for a type or stage its table lacks
LoadComponents == {0, 1}
LoadTypes == {0, 1}
LoadStages == {0, 1}
Absent == -1
Missing == -2
ApptCatalogs ==
  [LoadComponents ->
     [effectiveness : {[ct \in LoadTypes |-> Absent]} \cup [LoadTypes -> {Missing, 80}],
      stage_effectiveness : {[st \in LoadStages |-> Absent], [st \in LoadStages |-> 60]}]]
KeyAbsent(table) == \A k \in DOMAIN table : table[k] = Absent
PromptCatalogs == [LoadComponents -> [effectiveness : {Absent, 80}]]

\* every component has a value for every declared type and stage
ApptCatalogComplete(catalog) ==
  \A c \in LoadComponents :
    /\ ~KeyAbsent(catalog[c].effectiveness)
    /\ ~KeyAbsent(catalog[c].stage_effectiveness)
    /\ \A ct \in LoadTypes : catalog[c].effectiveness[ct] # Missing
PromptCatalogComplete(catalog) ==
  \A c \in LoadComponents : catalog[c].effectiveness # Absent

InitLoadAppt ==
  /\ env = "AppointmentPromptCatalog"
  /\ fin \in ApptCatalogs
  /\ fout = <<>>
  /\ NoApptEnv /\ NoPromptEnv /\ NoCall /\ NoAux

InitLoadPrompt ==
  /\ env = "PromptCatalog"
  /\ fin \in PromptCatalogs
  /\ fout = <<>>
  /\ NoApptEnv /\ NoPromptEnv /\ NoCall /\ NoAux

\* _initialize_prompt_components (lines 248-259) reads the keys
\* "effectiveness" and "stage_effectiveness" of each entry and nothing inside
\* them
InitializeRaises(catalog) ==
  \E c \in LoadComponents :
    KeyAbsent(catalog[c].effectiveness) \/ KeyAbsent(catalog[c].stage_effectiveness)

\* AppointmentPromptEnv.__init__ (lines 56-85): the components are copied
\* from the catalog, then reset draws the context
LoadApptEnv ==
  /\ env = "AppointmentPromptCatalog" /\ fout = <<>> /\ ~raised
  /\ IF InitializeRaises(fin)
     THEN raised' = TRUE /\ fout' = fout
     ELSE /\ raised' = FALSE
          /\ \E ct \in LoadTypes, st \in LoadStages :
               fout' = <<[customer_type |-> ct, conversation_stage |-> st]>>
  /\ UNCHANGED <<env, auxVars, fin, apptVars, peVars, reward, terminated, truncated,
                 histVars>>

\* _calculate_component_reward (lines 375-403) of a component in the
\* constructed object's context: the two subscripts of lines 382 and 385
\* raise KeyError for a type or stage the tables lack
LoadedComponentRaises(catalog, c, context) ==
  \/ catalog[c].effectiveness[context.customer_type] = Missing
  \/ catalog[c].stage_effectiveness[context.conversation_stage] = Missing
LoadedComponentReward(catalog, c, context) ==
  (catalog[c].effectiveness[context.customer_type]
    + catalog[c].stage_effectiveness[context.conversation_stage]) * (Scale \div 2000)

\* step selecting component c as the first component (lines 339-347)
LoadedApptStep(c) ==
  /\ env = "AppointmentPromptCatalog" /\ Len(fout) = 1 /\ ~raised
  /\ IF LoadedComponentRaises(fin, c, fout[1])
     THEN raised' = TRUE /\ fout' = fout
     ELSE raised' = FALSE /\ fout' = Append(fout, LoadedComponentReward(fin, c, fout[1]))
  /\ UNCHANGED <<env, auxVars, fin, apptVars, peVars, reward, terminated, truncated,
                 histVars>>

\* PromptEnv.__init__ (lines 31-62) reads only the names of the components
LoadPromptEnv ==
  /\ env = "PromptCatalog" /\ fout = <<>> /\ ~raised
  /\ fout' = <<[context_type |-> 0, conversation_stage |-> 0]>>
  /\ UNCHANGED <<env, auxVars, fin, apptVars, peVars, retVars, histVars>>

\* PromptEnv._calculate_component_reward (lines 154-179):
\* component_config.get("effectiveness", 0.5), line 160
LoadedPromptEffectiveness(catalog, c) ==
  IF catalog[c].effectiveness = Absent THEN 50 ELSE catalog[c].effectiveness

\* PromptEnv.step selecting component c as the first component (lines 121-126)
LoadedPromptStep(c) ==
  /\ env = "PromptCatalog" /\ Len(fout) = 1 /\ ~raised
  /\ fout' = Append(fout, LoadedPromptEffectiveness(fin, c) * (Scale \div 1000))
  /\ UNCHANGED <<env, auxVars, fin, apptVars, peVars, retVars, histVars>>

NextLoad ==
  \/ LoadApptEnv
  \/ \E c \in LoadComponents : LoadedApptStep(c)
  \/ LoadPromptEnv
  \/ \E c \in LoadComponents : LoadedPromptStep(c)

InitLoad == InitLoadAppt \/ InitLoadPrompt

SpecLoad == InitLoad /\ [][NextLoad]_vars

\* ------------------------------------------------------------------------
\* Function specification of the template generators: a generator, a context
\* and a list of selected components are drawn, the generator computes the
\* effectiveness_score of the template record
\* ------------------------------------------------------------------------
\* longest list of selected components handed to a generator
MaxGenLen == 2

\* components the lists are made of: the first three of the catalog
GenComponents == 0..2
GenSelections == UNION {[1..k -> GenComponents] : k \in 0..MaxGenLen}

\* PromptGenerator._calculate_effectiveness (lines 135-164) over the catalog
\* given to PromptEnv: the mean of effectiveness * 1.2 * 1.1 * 1.15, each
\* factor applied when the context prefers the component; no clipping
PGCalculateEffectiveness(names, ct, st, ul) ==
  IF names = <<>> THEN 0
  ELSE LET base(c) ==
             PE_Effectiveness[c + 1]
               * (IF c \in PE_ContextPreferred[ct + 1] THEN 12 ELSE 10)
               * (IF c \in PE_StagePreferred[st + 1] THEN 11 ELSE 10)
               * (IF ul = HIGH_URGENCY /\ c \in PE_UrgencyPreferred[ul + 1]
                  THEN 115 ELSE 100)
               * (Scale \div (10 * 10 * 10 * 100))
       IN  SumSeq([i \in 1..Len(names) |-> base(names[i])]) \div Len(names)

\* AppointmentPromptGenerator._calculate_effectiveness (lines 233-264): the
\* mean of the combined scores, which are those of the environment's
\* component reward before its scaling by 0.1, capped at 1.0
AGCalculateEffectiveness(names, ct, st, ul) ==
  IF names = <<>> THEN 0
  ELSE Min(SumSeq([i \in 1..Len(names) |->
                     10 * CalculateComponentReward(names[i], ct, st, ul)]) \div Len(names),
           Scale)

InitGenerator ==
  /\ env \in {"PromptGenerator", "AppointmentPromptGenerator"}
  /\ fin \in [selected_components : GenSelections,
              context_type : IF env = "PromptGenerator"
                             THEN 0..(PE_N_CONTEXT_TYPES - 1)
                             ELSE 0..(N_CUSTOMER_TYPES - 1),
              conversation_stage : IF env = "PromptGenerator"
                                   THEN 0..(PE_N_STAGES - 1)
                                   ELSE 0..(N_CONVERSATION_STAGES - 1),
              urgency_level : 0..(N_URGENCY_LEVELS - 1)]
  /\ fout = <<>>
  /\ NoApptEnv /\ NoPromptEnv /\ NoCall /\ NoAux

\* PromptGenerator.generate_template (lines 45-115): the record's
\* effectiveness_score
PGGenerateTemplate ==
  /\ env = "PromptGenerator" /\ fout = <<>>
  /\ fout' = <<PGCalculateEffectiveness(fin.selected_components, fin.context_type,
                                        fin.conversation_stage, fin.urgency_level)>>
  /\ UNCHANGED <<env, auxVars, fin, apptVars, peVars, retVars, histVars>>

\* AppointmentPromptGenerator.generate_prompt_template (lines 122-189)
AGGeneratePromptTemplate ==
  /\ env = "AppointmentPromptGenerator" /\ fout = <<>>
  /\ fout' = <<AGCalculateEffectiveness(fin.selected_components, fin.context_type,
                                        fin.conversation_stage, fin.urgency_level)>>
  /\ UNCHANGED <<env, auxVars, fin, apptVars, peVars, retVars, histVars>>

SpecGenerator == InitGenerator /\ [][PGGenerateTemplate \/ AGGeneratePromptTemplate]_vars

\* ------------------------------------------------------------------------
\* salesgym: AutomotiveAppointmentEnv (src/salesgym/src/purchase_env.py)
\* with the default configuration of config.py; features in hundredths
\* ------------------------------------------------------------------------
N_ACTIONS == 8
BOOK_APPOINTMENT == 7

\* config.py, get_action_effects over the default sales_actions (lines 60-140):
\* interest, urgency, availability, trust, commitment
ActionEffects ==
  << <<10, -2, -1, 6, 3>>, <<7, -3, -1, 5, 2>>, <<12, 0, -1, 3, 4>>,
     <<3, -10, 0, 2, 1>>, <<4, -1, -8, 2, 5>>, <<2, 0, 0, 11, 3>>,
     <<6, -1, -1, 4, 8>>, <<0, 0, 0, 0, 0>> >>

\* config.py, get_persona_priors over the default customer_types
PersonaPriors ==
  << <<30, 20, 40, 25, 20>>, <<45, 35, 60, 35, 35>>, <<60, 50, 80, 45, 50>>,
     <<30, 20, 40, 25, 20>>, <<45, 35, 60, 35, 35>>, <<60, 50, 80, 45, 50>> >>

\* noise vectors of rng.normal(0.0, 0.01, size=5), line 126: of the draws the
\* model explores the vectors that are all -0.01 or all +0.01
SalesNoise == {[d \in 1..5 |-> s] : s \in {-1, 1}}

\* the actions the agent is let to choose among: rapport, the closing tactic
\* and the booking attempt
SalesActions == {0, 6, BOOK_APPOINTMENT}

\* _is_ready_to_book (lines 183-201) with the default ready thresholds
IsReadyToBook(features) ==
  features[1] > 50 /\ features[4] > 50 /\ features[3] > 40 /\ features[5] > 60

\* the features after a step, lines 126-130
SalesFeatures(features, action, noise) ==
  [d \in 1..5 |-> Clip(features[d] + ActionEffects[action + 1][d] + noise[d], 0, 100)]

\* an environment that ends the episode one turn late
SalesTerminatedMutant(booked_now, t, max_turns) == booked_now \/ t > max_turns

\* terminated, line 139
SalesTerminated(booked_now, t, max_turns) == booked_now \/ t >= max_turns

\* the rewards a step can return, lines 143-148: at the end of the episode
\* float(rng.random() < p) with 0 < p < 1 (p is a logistic value), a draw
\* of its own; 0.0 otherwise
SalesRewards(terminated_now, booked_now) ==
  IF terminated_now THEN {0, Scale} ELSE {0}

\* a reset that leaves the turn counter alone
SalesResetStateMutant(persona) ==
  /\ sg_turn' = sg_turn
  /\ sg_persona_id' = persona
  /\ sg_features' = PersonaPriors[persona + 1]
  /\ sg_last_action' = N_ACTIONS

\* reset, lines 94-100
SalesResetState(persona) ==
  /\ sg_turn' = 0
  /\ sg_persona_id' = persona
  /\ sg_features' = PersonaPriors[persona + 1]
  /\ sg_last_action' = N_ACTIONS

\* AutomotiveAppointmentEnv.__init__ (lines 39-75), which ends with self.reset()
InitSales ==
  /\ env = "AutomotiveAppointmentEnv"
  /\ sg_n_personas \in {1, MaxPersonas}
  /\ sg_max_turns \in 1..MaxSalesTurns
  /\ sg_turn = 0
  /\ sg_persona_id \in 0..(sg_n_personas - 1)
  /\ sg_features = PersonaPriors[sg_persona_id + 1]
  /\ sg_last_action = N_ACTIONS
  /\ sg_booked_now = FALSE
  /\ sg_info = [returned |-> FALSE, appointment_booked |-> FALSE]
  /\ NoApptEnv /\ NoPromptEnv /\ NoCall /\ NoFn /\ NoShared /\ NoStrategy

\* AutomotiveAppointmentEnv.reset(seed, options) (lines 78-102); the
\* generator is the instance's own, its draw is any persona
SalesReset ==
  /\ env = "AutomotiveAppointmentEnv"
  /\ \E persona \in 0..(sg_n_personas - 1) : SalesResetState(persona)
  /\ sg_booked_now' = FALSE
  /\ sg_info' = [returned |-> TRUE, appointment_booked |-> FALSE]
  /\ reward' = 0 /\ terminated' = FALSE /\ truncated' = FALSE /\ raised' = FALSE
  /\ calls' = 0 /\ done_count' = 0
  /\ UNCHANGED <<env, apptVars, peVars, fnVars, sharedVars, gsVars, sg_n_personas, sg_max_turns>>

\* AutomotiveAppointmentEnv.step(action) (lines 104-160); the model follows
\* an episode up to one step past its end
SalesStep(action) ==
  /\ env = "AutomotiveAppointmentEnv"
  /\ sg_turn <= sg_max_turns
  /\ sg_turn' = sg_turn + 1
  /\ \E noise \in SalesNoise : sg_features' = SalesFeatures(sg_features, action, noise)
  /\ sg_booked_now' \in (IF action = BOOK_APPOINTMENT /\ IsReadyToBook(sg_features')
                         THEN BOOLEAN ELSE {FALSE})
  /\ terminated' = SalesTerminated(sg_booked_now', sg_turn', sg_max_turns)
  /\ truncated' = FALSE
  /\ reward' \in SalesRewards(terminated', sg_booked_now')
  /\ sg_info' = [returned |-> TRUE,
                 appointment_booked |-> (terminated' /\ reward' = Scale)]
  /\ sg_last_action' = action
  /\ raised' = FALSE
  /\ calls' = calls + 1
  /\ done_count' = IF terminated' THEN done_count + 1 ELSE done_count
  /\ UNCHANGED <<env, apptVars, peVars, fnVars, sharedVars, gsVars, sg_n_personas,
                 sg_max_turns, sg_persona_id>>

NextSales ==
  \/ SalesReset
  \/ \E action \in SalesActions : SalesStep(action)

SpecSales == InitSales /\ [][NextSales]_vars

\* ------------------------------------------------------------------------
\* Function specification of the order of a selection: a context and two
\* orders of the same set of components are drawn; the terminal effectiveness
\* and the compatibility bonus of each order are computed.
\* _calculate_compatibility_reward accumulates its terms in Python floats
\* (lines 409-428), in the order of the selection. The floats are modelled as
\* binary floating point with MantissaBits significant bits, rounded to the
\* nearest, ties to even, over values held in units of 2^-FracBits; Python's
\* float has 53 significant bits
\* ------------------------------------------------------------------------
MantissaBits == 8
FracBits == 16
FlOne == 2 ^ FracBits

\* longest selection that is reordered
MaxOrderLen == 3

Abs(x) == IF x < 0 THEN -x ELSE x
Log2Floor(q) == CHOOSE k \in 0..28 : 2 ^ k <= q /\ q < 2 ^ (k + 1)

\* the float nearest to n / d (n in units of 2^-FracBits), in the same units
FlRound(n, d) ==
  IF n = 0 THEN 0
  ELSE LET a == Abs(n)
           q0 == a \div d
           e == IF q0 >= 1 THEN Log2Floor(q0) - MantissaBits + 1 ELSE 0
           ulp == IF e > 0 THEN 2 ^ e ELSE 1
           dd == d * ulp
           q == a \div dd
           r == a - q * dd
           up == 2 * r > dd \/ (2 * r = dd /\ q % 2 = 1)
       IN  (IF n < 0 THEN -1 ELSE 1) * (IF up THEN q + 1 ELSE q) * ulp

\* the literals 0.3 and 0.05 of lines 422 and 427 as floats
Fl03 == FlRound(3 * FlOne, 10)
Fl005 == FlRound(5 * FlOne, 100)

\* the ordered pairs (i, j), i # j, in the order the two loops of lines
\* 412-413 visit them
PairOrder(n) ==
  LET all == [k \in 1..(n * n) |-> <<((k - 1) \div n) + 1, ((k - 1) % n) + 1>>]
  IN  SelectSeq(all, LAMBDA ij : ij[1] # ij[2])

\* compatibility_score after the first k pairs, lines 409-424: each += and -=
\* rounds
RECURSIVE FlCompatibilityScore(_, _, _)
FlCompatibilityScore(sel, compat, k) ==
  IF k = 0 THEN 0
  ELSE LET ij == PairOrder(Len(sel))[k]
           term == IF sel[ij[2]] \in compat[sel[ij[1]]] THEN FlOne ELSE -Fl03
       IN  FlRound(FlCompatibilityScore(sel, compat, k - 1) + term, 1)

\* a bonus that scores only the pairs of neighbouring components
FlCalculateCompatibilityRewardAdjacent(sel, compat) ==
  IF Len(sel) < 2 THEN 0
  ELSE LET total_pairs == Len(sel) * (Len(sel) - 1)
           pairs == {ij \in (1..Len(sel)) \X (1..Len(sel)) : Abs(ij[1] - ij[2]) = 1}
           good == {ij \in pairs : sel[ij[2]] \in compat[sel[ij[1]]]}
           score == Cardinality(good) * FlOne - Cardinality(pairs \ good) * Fl03
           quotient == FlRound(score, total_pairs)
       IN  FlRound(quotient * Fl005, FlOne)

\* _calculate_compatibility_reward (lines 405-429) as the floats compute it:
\* (compatibility_score / total_pairs) * 0.05
FlCalculateCompatibilityReward(sel, compat) ==
  IF Len(sel) < 2 THEN 0
  ELSE LET total_pairs == Len(sel) * (Len(sel) - 1)
           quotient == FlRound(FlCompatibilityScore(sel, compat, total_pairs), total_pairs)
       IN  FlRound(quotient * Fl005, FlOne)

\* the components the reordered selections are made of
OrderComponents == {0, 1, 3, 4}
OrderSelections ==
  {sel \in UNION {[1..k -> OrderComponents] : k \in 2..MaxOrderLen} : NoDuplicates(sel)}

InitOrder ==
  /\ env = "SelectionOrder"
  /\ fin \in {f \in [sel1 : OrderSelections, sel2 : OrderSelections,
                     customer_type : 0..(N_CUSTOMER_TYPES - 1),
                     conversation_stage : 0..(N_CONVERSATION_STAGES - 1),
                     noise : NoiseVectors] :
                Range(f.sel1) = Range(f.sel2)}
  /\ fout = <<>>
  /\ NoApptEnv /\ NoPromptEnv /\ NoCall /\ NoAux

\* what the environment computes for one order of the selection
OrderValues(sel, f) ==
  [effectiveness |->
     CalculatePromptEffectiveness(sel, f.customer_type, f.conversation_stage,
                                  InitialPsychology(f.customer_type, f.noise), DefaultCompat),
   compatibility |-> CalculateCompatibilityReward(sel, DefaultCompat),
   fl_compatibility |-> FlCalculateCompatibilityReward(sel, DefaultCompat)]

OrderApply ==
  /\ env = "SelectionOrder" /\ fout = <<>>
  /\ fout' = <<OrderValues(fin.sel1, fin), OrderValues(fin.sel2, fin)>>
  /\ UNCHANGED <<env, auxVars, fin, apptVars, peVars, retVars, histVars>>

SpecOrder == InitOrder /\ [][OrderApply]_vars

\* ========================================================================
\* Properties
\* ========================================================================
IsAppt == env = "AppointmentPromptEnv"
IsPrompt == env = "PromptEnv"

C2_BoundedEpisode ==
  /\ (IsAppt /\ calls >= MAX_PROMPT_LENGTH) => done_count >= 1
  /\ (IsPrompt /\ calls >= config.max_turns) => done_count >= 1

\* the sixth call is the first to report done
C2_Witness ==
  /\ IsAppt /\ calls = MAX_PROMPT_LENGTH /\ done_count = 1
  /\ truncated /\ turn = MAX_PROMPT_LENGTH

\* a step call that asks, without the finish action, for a component that
\* is already selected
ApptReselect(a) ==
  /\ DecodeFinish(a) = 0
  /\ DecodeComponent(a) \in Range(selected_components)
  /\ ApptStep(a)
PEReselect(a) ==
  /\ a # config.n
  /\ a \in Range(pe_selected_components)
  /\ PEStep(a)
\* the transition is a step call
StepCalled == calls' = calls + 1

\* C3 as claimed: in an episode not yet reported done, re-selecting an
\* already selected component returns reward exactly -0.1 and leaves
\* selected unchanged, on every turn, the step on which the turn counter
\* reaches the budget included.
C3_Original ==
  [][ (StepCalled /\ done_count = 0) =>
        /\ IsAppt =>
             \A a \in ApptActions :
               ApptReselect(a) =>
                 (reward' = -Tenth /\ selected_components' = selected_components)
        /\ IsPrompt =>
             \A a \in 0..config.n :
               PEReselect(a) =>
                 (reward' = -Tenth /\ pe_selected_components' = pe_selected_components)
    ]_vars

\* C3 amended: re-selecting an already selected component leaves selected
\* unchanged on every step, and returns reward exactly -0.1 on every step
\* after which the turn counter is still below the turn budget; a step that
\* leaves the counter at the budget returns the final effectiveness of the
\* selection instead.
C3_Reselect ==
  [][ StepCalled =>
        /\ IsAppt =>
             \/ /\ selected_components' = selected_components
                /\ turn' < MAX_PROMPT_LENGTH => reward' = -Tenth
                /\ turn' >= MAX_PROMPT_LENGTH =>
                     reward' = CalculatePromptEffectiveness(selected_components,
                                 customer_type, conversation_stage,
                                 customer_psychology, DefaultCompat)
             \/ \A a \in ApptActions : ~ApptReselect(a)
        /\ IsPrompt =>
             \/ /\ pe_selected_components' = pe_selected_components
                /\ pe_turn' < config.max_turns => reward' = -Tenth
                /\ pe_turn' >= config.max_turns =>
                     reward' = PEFinal(pe_selected_components)
             \/ \A a \in 0..config.n : ~PEReselect(a)
    ]_vars

\* a component was rejected twice in a row, the episode goes on
C3_Witness ==
  /\ IsAppt /\ reward = -Tenth /\ ~terminated /\ ~truncated
  /\ Len(selected_components) = 1 /\ turn = 3

\* C4: selected never holds the same component index twice, steps issued
\* after a done signal included.
C4_NoDuplicates ==
  /\ NoDuplicates(selected_components)
  /\ NoDuplicates(pe_selected_components)

\* a component appended by a step issued after the episode was reported done
C4_Witness ==
  /\ IsPrompt /\ done_count = 2 /\ pe_turn > config.max_turns
  /\ Len(pe_selected_components) = pe_turn /\ pe_turn >= 2

\* C5: in AppointmentPromptEnv len(selected) <= turn <= MAX_PROMPT_LENGTH,
\* steps issued after terminated or truncated included.
C5_TurnBounds ==
  IsAppt => /\ turn <= MAX_PROMPT_LENGTH
            /\ Len(selected_components) <= turn

\* steps were issued after the budget ran out
C5_Witness ==
  /\ IsAppt /\ turn = MAX_PROMPT_LENGTH /\ calls > MAX_PROMPT_LENGTH
  /\ done_count = 2 /\ terminated
  /\ Len(selected_components) < turn

\* C6 as claimed: in PromptEnv, up to and including the terminating step,
\* len(selected_components) <= max_prompt_length.
C6_Original ==
  (IsPrompt /\ done_count <= 1) =>
    Len(pe_selected_components) <= config.max_prompt_length

\* C7 as claimed: in PromptEnv the turn counter stays within the declared
\* observation bound 0 <= turn <= max_turns, steps after terminated included.
C7_Original ==
  IsPrompt => (0 <= pe_turn /\ pe_turn <= config.max_turns)

\* C8: the reward of a step that reports terminated or truncated lies in
\* [0, 1].
C8_TerminalRewardInUnitInterval ==
  (terminated \/ truncated) => (0 <= reward /\ reward <= Scale)

\* a terminal reward whose sum of terms was above 1 and was clamped
C8_Witness ==
  /\ IsAppt /\ (terminated \/ truncated) /\ reward = Scale
  /\ selected_components # <<>>
  /\ FinalScore(selected_components, customer_type, conversation_stage,
                customer_psychology, DefaultCompat) > Scale

\* C9: an episode ended with nothing selected returns terminal reward 0.
C9_EmptyTerminalReward ==
  /\ (IsAppt /\ (terminated \/ truncated) /\ selected_components = <<>>) => reward = 0
  /\ (IsPrompt /\ (terminated \/ truncated) /\ pe_selected_components = <<>>) => reward = 0

\* finish given as the first action
C9_Witness ==
  /\ IsAppt /\ terminated /\ calls = 1 /\ selected_components = <<>> /\ reward = 0

\* C10: when B is in A's compatibility list, C is not, and B and C list A
\* alike, the bonus of [A, B] is strictly greater than the bonus of [A, C];
\* the bonus of fewer than two components is 0.
C10_CompatibilityBonus ==
  (env = "ScoringModel" /\ Len(fout) = 2) =>
    /\ \A A, B, C \in RelComponents :
         ( /\ A # B /\ A # C /\ B # C
           /\ fin.sel1 = <<A, B>> /\ fin.sel2 = <<A, C>>
           /\ B \in fin.compat[A] /\ C \notin fin.compat[A]
           /\ (A \in fin.compat[B]) = (A \in fin.compat[C]) )
         => fout[1] > fout[2]
    /\ Len(fin.sel1) < 2 => fout[1] = 0
    /\ Len(fin.sel2) < 2 => fout[2] = 0

C10_Witness ==
  /\ env = "ScoringModel" /\ Len(fout) = 2
  /\ fin.sel1 = <<0, 1>> /\ fin.sel2 = <<0, 2>>
  /\ fin.compat[0] = {1} /\ fin.compat[1] = {0} /\ fin.compat[2] = {0}
  /\ fout[1] > fout[2]

\* every integer action of the action space [0, C*P*2)
AllActions == 0..(ActionSpaceSize - 1)

\* step(a) called in the current state takes the select branch and rejects
\* the action as invalid (line 351)
ApptRejected(a) ==
  /\ DecodeFinish(a) = 0
  /\ ~ApptBudgetExhausted(turn)
  /\ ~ApptValid(DecodeComponent(a), DecodePosition(a), selected_components)

\* C11 as claimed: in every reachable state of AppointmentPromptEnv and for
\* every action in [0, C*P*2), step does not raise and changes turn by 0 or
\* +1, and an action rejected as invalid returns reward exactly -0.1.
C11_Original ==
  IsAppt =>
    \A a \in AllActions :
      /\ ~ApptStepRaises(a)
      /\ ApptStepTurn(a) \in {turn, turn + 1}
      /\ ApptRejected(a) => ApptStepReward(a) = -Tenth

\* C11 amended: in every reachable state of AppointmentPromptEnv and for
\* every action in [0, C*P*2), step does not raise and changes turn by 0 or
\* +1; an action rejected as invalid returns reward -0.1 when the turn
\* counter stays below MAX_PROMPT_LENGTH, and the final effectiveness of the
\* unchanged selection when the step brings the counter to MAX_PROMPT_LENGTH.
C11_StepNeverRaises ==
  IsAppt =>
    \A a \in AllActions :
      /\ ~ApptStepRaises(a)
      /\ ApptStepTurn(a) \in {turn, turn + 1}
      /\ ApptRejected(a) =>
           /\ ApptStepSelected(a) = selected_components
           /\ ApptStepReward(a) = IF turn + 1 < MAX_PROMPT_LENGTH
                                  THEN -Tenth
                                  ELSE ApptEffectiveness(selected_components)

\* one component selected, then five rejected actions: the last of them is
\* answered with truncated and the final effectiveness
C11_Witness ==
  /\ IsAppt /\ ~raised /\ truncated /\ ~terminated
  /\ calls = MAX_PROMPT_LENGTH /\ turn = MAX_PROMPT_LENGTH
  /\ Len(selected_components) = 1
  /\ reward = ApptEffectiveness(selected_components)
  /\ reward # -Tenth

\* C12: in AppointmentPromptEnv a step whose finish bit is set returns
\* terminated = True with reward equal to the final effectiveness of the
\* selection as it stood before the step, and leaves selected, turn,
\* prompt_so_far, the context and the psychology vector unchanged.
C12_FinishStep ==
  [][ (StepCalled /\ IsAppt) =>
        \/ /\ terminated'
           /\ reward' = ApptEffectiveness(selected_components)
           /\ UNCHANGED <<selected_components, turn, prompt_so_far, customer_type,
                          conversation_stage, urgency_level, customer_psychology>>
        \/ \A a \in ApptActions : ~(DecodeFinish(a) = 1 /\ ApptStep(a))
    ]_vars

\* two components selected, then the finish action
C12_Witness ==
  /\ IsAppt /\ terminated /\ ~truncated /\ done_count = 1
  /\ calls = 3 /\ turn = 2 /\ Len(selected_components) = 2
  /\ reward = ApptEffectiveness(selected_components)
  /\ reward > 0

\* step(a) called in the current state takes the select branch and accepts
\* the action (line 341)
ApptAccepted(a) ==
  /\ DecodeFinish(a) = 0
  /\ ~ApptBudgetExhausted(turn)
  /\ ApptValid(DecodeComponent(a), DecodePosition(a), selected_components)

\* componentReward(component, context), plus compatibilityBonus(selected)
\* when the selection sel1 after the append has more than one component
SelectionReward(component_idx, sel1) ==
  CalculateComponentReward(component_idx, customer_type, conversation_stage,
                           urgency_level)
  + (IF Len(sel1) > 1 THEN CalculateCompatibilityReward(sel1, DefaultCompat) ELSE 0)

\* C13 as claimed: in every Active state (no step has reported done) a
\* non-finish step whose component is not yet selected appends it to the end
\* of selected, increases turn by exactly 1 and returns componentReward plus,
\* when the selection then has more than one component, compatibilityBonus.
C13_Original ==
  (IsAppt /\ done_count = 0) =>
    \A a \in AllActions :
      ApptAccepted(a) =>
        /\ ApptStepSelected(a) = Append(selected_components, DecodeComponent(a))
        /\ ApptStepTurn(a) = turn + 1
        /\ ApptStepReward(a) =
             SelectionReward(DecodeComponent(a),
                             Append(selected_components, DecodeComponent(a)))

\* C13 amended: in every Active state a non-finish step whose component is
\* not yet selected appends it to the end of selected and increases turn by
\* exactly 1; it returns componentReward plus, when the selection then has
\* more than one component, compatibilityBonus, unless the step brings turn
\* to MAX_PROMPT_LENGTH: that step returns the final effectiveness of the
\* selection including the new component.
C13_ValidSelection ==
  (IsAppt /\ done_count = 0) =>
    \A a \in AllActions :
      ApptAccepted(a) =>
        /\ ApptStepSelected(a) = Append(selected_components, DecodeComponent(a))
        /\ ApptStepTurn(a) = turn + 1
        /\ ApptStepReward(a) =
             IF turn + 1 < MAX_PROMPT_LENGTH
             THEN SelectionReward(DecodeComponent(a),
                                  Append(selected_components, DecodeComponent(a)))
             ELSE ApptEffectiveness(Append(selected_components, DecodeComponent(a)))

\* the second component was just appended and rewarded with its component
\* reward plus the compatibility bonus
C13_Witness ==
  /\ IsAppt /\ ~raised /\ ~terminated /\ ~truncated /\ done_count = 0
  /\ calls = 2 /\ turn = 2 /\ Len(selected_components) = 2
  /\ reward = SelectionReward(selected_components[2], selected_components)
  /\ CalculateCompatibilityReward(selected_components, DefaultCompat) # 0

\* C14 as claimed: Terminal is absorbing: a step called after a step that
\* returned terminated = True appends nothing to selected, leaves turn
\* unchanged and again reports the episode as done.
C14_Original ==
  [][ (StepCalled /\ terminated) =>
        /\ IsAppt => /\ selected_components' = selected_components
                     /\ turn' = turn
                     /\ (terminated' \/ truncated')
        /\ IsPrompt => /\ pe_selected_components' = pe_selected_components
                       /\ pe_turn' = pe_turn
                       /\ (terminated' \/ truncated')
    ]_vars

\* C15 as claimed: when the caller supplies a context to
\* AppointmentPromptEnv.reset, the context after reset is the supplied
\* triple.
C15_Original ==
  [][ (IsAppt /\ calls' = 0) =>
        \A options \in ApptSuppliedContexts :
          ApptResetWith(options) =>
            /\ customer_type' = options.customer_type
            /\ conversation_stage' = options.conversation_stage
            /\ urgency_level' = options.urgency_level
    ]_vars

\* the context fields of PromptEnv are within their declared ranges
PEContextInRange ==
  /\ current_context_type \in 0..(PE_N_CONTEXT_TYPES - 1)
  /\ current_conversation_stage \in 0..(PE_N_STAGES - 1)
  /\ current_urgency_level \in 0..(PE_N_URGENCY - 1)

\* C16: in PromptEnv.reset each context field present in options becomes the
\* episode's value verbatim, each absent field is set to an index of its
\* declared range, and each field is decided by its own entry of options
\* alone.
C16_ResetOptions ==
  [][ (IsPrompt /\ calls' = 0 /\ pe_turn' = 0) =>
        \A options \in PEOptions :
          \/ /\ Len(options.context_type) = 1 =>
                  current_context_type' = options.context_type[1]
             /\ Len(options.context_type) = 0 =>
                  current_context_type' \in 0..(PE_N_CONTEXT_TYPES - 1)
             /\ Len(options.conversation_stage) = 1 =>
                  current_conversation_stage' = options.conversation_stage[1]
             /\ Len(options.conversation_stage) = 0 =>
                  current_conversation_stage' \in 0..(PE_N_STAGES - 1)
             /\ Len(options.urgency_level) = 1 =>
                  current_urgency_level' = options.urgency_level[1]
             /\ Len(options.urgency_level) = 0 =>
                  current_urgency_level' \in 0..(PE_N_URGENCY - 1)
          \/ ~PEResetWith(options)
    ]_vars

\* a reset whose options held only context_type: the supplied value is
\* kept as given, the stage and the urgency level are values that only a
\* draw produces
C16_Witness ==
  /\ IsPrompt /\ calls = 0 /\ pe_turn = 0 /\ ~raised
  /\ current_context_type = PE_N_CONTEXT_TYPES
  /\ current_conversation_stage = 1 /\ current_conversation_stage \notin SuppliedStages
  /\ current_urgency_level = 0 /\ current_urgency_level \notin SuppliedUrgencyLevels

\* C17 as claimed: a reset called with a context index outside the declared
\* range fails at the reset call, so no episode is started, and no step
\* runs, with a context field outside its range.
C17_Original ==
  IsPrompt => PEContextInRange

\* the transition is a step call, returned or raised
StepTaken == calls' = calls + 1 \/ (raised' /\ ~raised)

\* C18: no step changes the context (context type, stage, urgency level) or
\* the psychology vector set by reset, whatever the action and the outcome.
C18_ContextFixed ==
  [][ StepTaken =>
        UNCHANGED <<customer_type, conversation_stage, urgency_level,
                    customer_psychology, current_context_type,
                    current_conversation_stage, current_urgency_level>>
    ]_vars

\* an episode of valid selections, rejected actions and the truncating step:
\* the psychology vector is still the one reset computed for the type
C18_Witness ==
  /\ IsAppt /\ truncated /\ calls = MAX_PROMPT_LENGTH
  /\ Len(selected_components) = 2
  /\ customer_type = N_CUSTOMER_TYPES - 1 /\ urgency_level = HIGH_URGENCY
  /\ \E noise \in NoiseVectors :
       customer_psychology = InitialPsychology(customer_type, noise)

\* the transition is a reset call
ResetCalled == calls' = 0 /\ ~raised'

\* C19: whatever the state reset is called in (mid-episode, after finish,
\* after truncation), it yields turn = 0, an empty selection and every
\* position indicator 0.
C19_ResetInitialState ==
  [][ ResetCalled =>
        /\ IsAppt => /\ turn' = 0
                     /\ selected_components' = <<>>
                     /\ \A i \in 1..MAX_PROMPT_LENGTH : prompt_so_far'[i] = 0
        /\ IsPrompt => /\ pe_turn' = 0
                       /\ pe_selected_components' = <<>>
    ]_vars

\* a fresh episode of a PromptEnv whose context only a reset sets: the
\* constructor leaves context type 0
C19_Witness ==
  /\ IsPrompt /\ ~raised /\ calls = 0 /\ done_count = 0
  /\ current_context_type = 1 /\ current_urgency_level = 1
  /\ pe_turn = 0 /\ pe_selected_components = <<>>

\* the episode state of both environments
EpisodeState ==
  <<selected_components, turn, prompt_so_far, customer_type, conversation_stage,
    urgency_level, customer_psychology, pe_selected_components, pe_turn,
    current_context_type, current_conversation_stage, current_urgency_level>>

\* C20 as claimed: the episode state changes only in a reset or a step; no
\* other operation of the engine, evaluate_strategy included, and no write
\* to a returned observation changes it.
C20_Original ==
  [][ EpisodeState' # EpisodeState =>
        \/ \E a \in 0..config.n : PEStep(a)
        \/ PEReset
        \/ \E a \in AllActions : ApptStep(a)
        \/ ApptReset
    ]_vars

\* ------------------------------------------------------------------------
\* C21: two environment instances share nothing mutable: whatever calls are
\* made on the first instance, the context and the psychology vector the
\* second instance obtains from its resets are the ones it obtains when the
\* first instance's calls are not made.
\* ------------------------------------------------------------------------
C21_Original ==
  (other_env # <<>> /\ other_alone.pos > 0) =>
    other_env = OtherEnvState(np_stream[other_alone.seed][other_alone.pos - 1])

\* ------------------------------------------------------------------------
\* C22: constructing an environment from a catalog in which some component
\* has no effectiveness value for a declared type or stage fails at
\* construction: no object is ever constructed from an incomplete catalog (so
\* no default is substituted and no failure is left to a later step).
\* ------------------------------------------------------------------------
C22_Original ==
  /\ (env = "AppointmentPromptCatalog" /\ Len(fout) >= 1) => ApptCatalogComplete(fin)
  /\ (env = "PromptCatalog" /\ Len(fout) >= 1) => PromptCatalogComplete(fin)

\* ------------------------------------------------------------------------
\* C23: whenever a step of AppointmentPromptEnv has ended the episode with a
\* non-empty selection, the reward it returned is
\* clamp(avg + 0.1 * (number of selected components the customer type
\* prefers) + 0.1 * (number the stage prefers) + 10 * compatibilityBonus
\* + max(0, (MAX_PROMPT_LENGTH - len) * 0.05) + min(0.2, psychologyBonus),
\* 0, 1), avg being the mean over the selection of (type effectiveness +
\* stage effectiveness) / 2.
\* ------------------------------------------------------------------------
C23_TerminalReward ==
  (IsAppt /\ ~raised /\ calls > 0 /\ (terminated \/ truncated)
     /\ selected_components # <<>>) =>
    LET sel == selected_components
        n == Len(sel)
        half(i) == (Effectiveness[sel[i] + 1][customer_type + 1]
                    + StageEffectiveness[sel[i] + 1][conversation_stage + 1])
                   * (Scale \div 20)
        avg == SumSeq([i \in 1..n |-> half(i)]) \div n
        byType == Cardinality({i \in 1..n : sel[i] \in Preferences[customer_type + 1]})
        byStage == Cardinality({i \in 1..n : sel[i] \in StagePreferred[conversation_stage + 1]})
    IN  reward = Clip(avg + Tenth * byType + Tenth * byStage
                        + 10 * CalculateCompatibilityReward(sel, DefaultCompat)
                        + Max(0, (MAX_PROMPT_LENGTH - n) * (Scale \div 20))
                        + Min(2 * Tenth, CalculatePsychologyAlignmentBonus(sel, customer_psychology)),
                      0, Scale)

\* a finish step ended an episode with two components whose compatibility
\* bonus is not zero
C23_Witness ==
  /\ IsAppt /\ ~raised /\ calls > 0 /\ terminated
  /\ Len(selected_components) = 2
  /\ CalculateCompatibilityReward(selected_components, DefaultCompat) # 0
  /\ reward > 0

\* ------------------------------------------------------------------------
\* C24: the effectiveness_score placed in a generated template record lies
\* in [0, 1], for every context and every list of selected components, in
\* both generators.
\* ------------------------------------------------------------------------
C24_Original ==
  (env \in {"PromptGenerator", "AppointmentPromptGenerator"} /\ fout # <<>>) =>
    (0 <= fout[1] /\ fout[1] <= Scale)

\* ------------------------------------------------------------------------
\* C25: in the salesgym environment, for every sequence of actions and every
\* outcome of the random draws, step returns terminated = True no later than
\* the max_conversation_turns-th step after reset: once that many steps have
\* been made since the reset, a step has reported the end of the episode,
\* and the max_conversation_turns-th step itself reports it.
\* ------------------------------------------------------------------------
IsSales == env = "AutomotiveAppointmentEnv"

C25_TerminatesWithinMaxTurns ==
  (IsSales /\ calls >= sg_max_turns) =>
    /\ done_count > 0
    /\ calls = sg_max_turns => terminated

\* the largest turn budget was used up without a booking: the last step of
\* the budget reported the end
C25_Witness ==
  /\ IsSales /\ sg_max_turns = MaxSalesTurns /\ calls = sg_max_turns
  /\ ~sg_booked_now /\ terminated /\ done_count = 1

\* ------------------------------------------------------------------------
\* C26: in the salesgym environment, immediately after every reset, also one
\* made in the middle of an episode, the observation has last_action =
\* N_ACTIONS, 0 <= persona_id < n_personas and turn_idx = 0.
\* ------------------------------------------------------------------------
C26_ResetObservation ==
  [][ (IsSales /\ calls' = 0) =>
        /\ sg_last_action' = N_ACTIONS
        /\ 0 <= sg_persona_id' /\ sg_persona_id' < sg_n_personas
        /\ sg_turn' = 0
    ]_vars

\* a reset has returned: no step since, the marker and turn 0 in the
\* observation and a persona other than the first
C26_Witness ==
  /\ IsSales /\ sg_info.returned /\ calls = 0
  /\ sg_last_action = N_ACTIONS /\ sg_turn = 0 /\ sg_persona_id > 0

\* ------------------------------------------------------------------------
\* C27: in the salesgym environment the reward is given only at episode end,
\* 1 if the appointment was booked and 0 otherwise: every step that does not
\* end the episode returns reward 0, and a step on which the customer books
\* the appointment returns reward 1 with info.appointment_booked = True.
\* ------------------------------------------------------------------------
C27_Original ==
  (IsSales /\ calls > 0) =>
    /\ ~terminated => reward = 0
    /\ sg_booked_now => (reward = Scale /\ sg_info.appointment_booked)

\* ------------------------------------------------------------------------
\* C28: in generate_strategy (and generate_template), whatever actions the
\* policy returns, after each loop iteration the locally tracked list equals
\* the environment's selected_components; hence the list returned has no
\* duplicates, is in selection order and has at most min(10, max_turns)
\* entries.
\* ------------------------------------------------------------------------
C28_LocalListTracksEnv ==
  (env = "PromptEnv" /\ gs_pc \in {"loop", "returned"}) =>
    /\ gs_selected_components = pe_selected_components
    /\ NoDuplicates(gs_selected_components)
    /\ Len(gs_selected_components) <= Min(MAX_STEPS, config.max_turns)

\* a strategy of two components was returned after an iteration in which
\* the policy chose a component a second time
C28_Witness ==
  /\ env = "PromptEnv" /\ gs_pc = "returned" /\ ~raised
  /\ Len(gs_selected_components) = 2 /\ gs_step > 2
  /\ gs_selected_components = pe_selected_components

====
